---- MODULE Spec2Model ----
(***************************************************************************)
(* A model of openmdao.core.component.Component: the variable registry     *)
(* (add_param / add_output / add_state / _setup_variables), the residual   *)
(* evaluator (apply_nonlinear), the finite-difference Jacobian engine      *)
(* (fd_jacobian) and the cached-Jacobian applicator (_apply_linear_jac).   *)
(*                                                                         *)
(* Numbers are exact integers (a fixed-point reading of the float          *)
(* buffers); quotients recorded in a Jacobian are kept as <<num, den>>.    *)
(* Python exceptions are recorded in err: ValueError is the spec's         *)
(* ConfigurationError, RuntimeError its StateError.                        *)
(***************************************************************************)
EXTENDS Integers, Sequences, FiniteSets, TLC

VARIABLES
    params_dict,     \* self._params_dict: sequence of [key, meta] in insertion order
    unknowns_dict,   \* self._unknowns_dict
    post_setup,      \* self._post_setup
    pathname,        \* self.pathname, assigned by the parent system
    jacobian_cache,  \* self._jacobian_cache
    linearized,      \* history: a Jacobian has been computed or supplied and cached
    fd_options,      \* self.fd_options: configured step_size / form / step_type
    solve_kind,      \* which solve_nonlinear behaviour the component was given
    params,          \* params vector: [name -> sequence of numbers]
    unknowns,        \* unknowns vector
    resids,          \* resids vector
    dparams,         \* dparams vector (a name may be absent)
    dunknowns,       \* dunknowns vector
    dresids,         \* dresids vector
    pc,              \* "idle", or "fd" while fd_jacobian is between two indices
    fd,              \* the locals of the running fd_jacobian call
    err,             \* outcome of the last call: "none", "ok" or the exception raised
    last,            \* the last call: its name, its arguments and the state it found
    declared,        \* history: the successful declarations, in order
    ncalls           \* number of calls made so far

vars == <<params_dict, unknowns_dict, post_setup, pathname, jacobian_cache,
          linearized, fd_options, solve_kind, params, unknowns, resids, dparams, dunknowns,
          dresids, pc, fd, err, last, declared, ncalls>>

regvars == <<params_dict, unknowns_dict, post_setup>>
vecvars == <<params, unknowns, resids>>
dvecvars == <<dparams, dunknowns, dresids>>
cachevars == <<jacobian_cache, linearized>>

-----------------------------------------------------------------------------
(* Bounds and input sets *)

MaxCalls == 3

Names == {"x", "y"}
Paths == {"", "c"}

\* A value is [kind, v]: kind "notset" is the _NotSet sentinel, "scalar" a
\* Python float, "array" a numpy array, v its flattened content.
NotSet == [kind |-> "notset", v |-> <<>>]
Scalar(a) == [kind |-> "scalar", v |-> <<a>>]
Array(s) == [kind |-> "array", v |-> s]

\* shape is None (no shape keyword) or <<n>>
None == <<>>
Vals == {NotSet, Array(<<7>>)}
Shapes == {None, <<1>>, <<2>>}

\* self._jacobian_cache is None, or a dict: its items in iteration order, each
\* [unknown, param, J] for the key (unknown, param) and the block J
NoneCache == [isNone |-> TRUE, items |-> <<>>]
Dict(items) == [isNone |-> FALSE, items |-> items]

\* meta has no 'relative_name' entry before _setup_variables
NoName == "<none>"

AddOps == {"add_param", "add_output", "add_state"}

-----------------------------------------------------------------------------
(* Ordered dictionaries *)

Keys(d) == {d[i].key : i \in DOMAIN d}

DictSet(d, k, m) ==
    IF k \in Keys(d)
    THEN [i \in DOMAIN d |-> IF d[i].key = k THEN [key |-> k, meta |-> m] ELSE d[i]]
    ELSE Append(d, [key |-> k, meta |-> m])

Zeros(n) == [i \in 1..n |-> 0]

-----------------------------------------------------------------------------
(* Variable registry.  c is the component: [params_dict, unknowns_dict,    *)
(* post_setup, pathname].  A call returns [c, err].                         *)

get_initial_val(val, shape) ==
    IF val = NotSet
    THEN IF shape = <<1>> THEN Scalar(0) ELSE Array(Zeros(shape[1]))
    ELSE val

check_val(val, shape) ==
    IF val = NotSet /\ shape = None THEN "ValueError" ELSE "ok"

check_name_nolock(c, name) ==
    IF name \in Keys(c.params_dict) \/ name \in Keys(c.unknowns_dict)
    THEN "RuntimeError"
    ELSE "ok"

check_name_paramsonly(c, name) ==
    IF c.post_setup THEN "RuntimeError"
    ELSE IF name \in Keys(c.params_dict) THEN "RuntimeError"
    ELSE "ok"

check_name(c, name) ==
    IF c.post_setup THEN "RuntimeError"
    ELSE IF name \in Keys(c.params_dict) \/ name \in Keys(c.unknowns_dict)
         THEN "RuntimeError"
         ELSE "ok"

NewMeta(val, shape, state) ==
    [val |-> get_initial_val(val, shape), shape |-> shape, state |-> state,
     relative_name |-> NoName]

add_param_namefirst(c, name, val, shape) ==
    IF check_name(c, name) # "ok" THEN [c |-> c, err |-> check_name(c, name)]
    ELSE IF check_val(val, shape) # "ok" THEN [c |-> c, err |-> check_val(val, shape)]
    ELSE [c |-> [c EXCEPT !.params_dict = DictSet(@, name, NewMeta(val, shape, FALSE))],
          err |-> "ok"]

add_param(c, name, val, shape) ==
    IF check_val(val, shape) # "ok" THEN [c |-> c, err |-> check_val(val, shape)]
    ELSE IF check_name(c, name) # "ok" THEN [c |-> c, err |-> check_name(c, name)]
    ELSE [c |-> [c EXCEPT !.params_dict = DictSet(@, name, NewMeta(val, shape, FALSE))],
          err |-> "ok"]

\* add_output without the call of _check_name
add_output_unchecked(c, name, val, shape) ==
    IF check_val(val, shape) # "ok" THEN [c |-> c, err |-> check_val(val, shape)]
    ELSE [c |-> [c EXCEPT !.unknowns_dict = DictSet(@, name, NewMeta(val, shape, FALSE))],
          err |-> "ok"]

add_output(c, name, val, shape) ==
    IF check_val(val, shape) # "ok" THEN [c |-> c, err |-> check_val(val, shape)]
    ELSE IF check_name(c, name) # "ok" THEN [c |-> c, err |-> check_name(c, name)]
    ELSE [c |-> [c EXCEPT !.unknowns_dict = DictSet(@, name, NewMeta(val, shape, FALSE))],
          err |-> "ok"]

add_state(c, name, val, shape) ==
    IF check_val(val, shape) # "ok" THEN [c |-> c, err |-> check_val(val, shape)]
    ELSE IF check_name(c, name) # "ok" THEN [c |-> c, err |-> check_name(c, name)]
    ELSE [c |-> [c EXCEPT !.unknowns_dict = DictSet(@, name, NewMeta(val, shape, TRUE))],
          err |-> "ok"]

var_pathname(path, name) ==
    IF path = "" THEN name ELSE path \o ":" \o name

RECURSIVE Rekey(_, _, _, _)
Rekey(d, path, i, new) ==
    IF i > Len(d) THEN new
    ELSE Rekey(d, path, i + 1,
               DictSet(new, var_pathname(path, d[i].key),
                       [d[i].meta EXCEPT !.relative_name = d[i].key]))

setup_variables(c) ==
    [c EXCEPT !.params_dict = Rekey(c.params_dict, c.pathname, 1, <<>>),
              !.unknowns_dict = Rekey(c.unknowns_dict, c.pathname, 1, <<>>),
              !.post_setup = TRUE]

NewComponent(path) ==
    [params_dict |-> <<>>, unknowns_dict |-> <<>>, post_setup |-> FALSE,
     pathname |-> path]

Self ==
    [params_dict |-> params_dict, unknowns_dict |-> unknowns_dict,
     post_setup |-> post_setup, pathname |-> pathname]

-----------------------------------------------------------------------------
(* Registry lifecycle: the declaration calls and finalization *)

NoCall == [op |-> "none", name |-> "", val |-> NotSet, shape |-> None, pre |-> NewComponent("")]

Call(op, name, val, shape) ==
    [op |-> op, name |-> name, val |-> val, shape |-> shape, pre |-> Self]

InitIdleVectors ==
    /\ jacobian_cache = Dict(<<>>)
    /\ linearized = FALSE
    /\ fd_options = [step_size |-> 1, form |-> "forward", step_type |-> "absolute"]
    /\ solve_kind = "linear"
    /\ params = <<>> /\ unknowns = <<>> /\ resids = <<>>
    /\ dparams = <<>> /\ dunknowns = <<>> /\ dresids = <<>>
    /\ pc = "idle"
    /\ fd = <<>>

Init ==
    /\ params_dict = <<>>
    /\ unknowns_dict = <<>>
    /\ post_setup = FALSE
    /\ pathname \in Paths
    /\ InitIdleVectors
    /\ err = "none"
    /\ last = NoCall
    /\ declared = <<>>
    /\ ncalls = 0

Declare(op, r, name, val, shape) ==
    /\ ncalls < MaxCalls
    /\ params_dict' = r.c.params_dict
    /\ unknowns_dict' = r.c.unknowns_dict
    /\ post_setup' = r.c.post_setup
    /\ err' = r.err
    /\ last' = Call(op, name, val, shape)
    /\ declared' = IF r.err = "ok" THEN Append(declared, [op |-> op, name |-> name])
                   ELSE declared
    /\ ncalls' = ncalls + 1
    /\ UNCHANGED <<pathname, cachevars, fd_options, solve_kind, vecvars, dvecvars, pc, fd>>

AddParam ==
    \E name \in Names, val \in Vals, shape \in Shapes :
        Declare("add_param", add_param(Self, name, val, shape), name, val, shape)

AddOutput ==
    \E name \in Names, val \in Vals, shape \in Shapes :
        Declare("add_output", add_output(Self, name, val, shape), name, val, shape)

AddState ==
    \E name \in Names, val \in Vals, shape \in Shapes :
        Declare("add_state", add_state(Self, name, val, shape), name, val, shape)

SetupVariables ==
    /\ ncalls < MaxCalls
    /\ params_dict' = setup_variables(Self).params_dict
    /\ unknowns_dict' = setup_variables(Self).unknowns_dict
    /\ post_setup' = setup_variables(Self).post_setup
    /\ err' = "ok"
    /\ last' = Call("setup_variables", "", NotSet, None)
    /\ ncalls' = ncalls + 1
    /\ UNCHANGED <<pathname, cachevars, fd_options, solve_kind, vecvars, dvecvars,
                   pc, fd, declared>>

Next == AddParam \/ AddOutput \/ AddState \/ SetupVariables

Spec == Init /\ [][Next]_vars

-----------------------------------------------------------------------------
(* Vectors: [name -> sequence of numbers]; .vec arithmetic is elementwise   *)
(* over the whole buffer.                                                   *)

VNeg(a) == [n \in DOMAIN a |-> [i \in DOMAIN a[n] |-> 0 - a[n][i]]]
VAdd(a, b) == [n \in DOMAIN a |-> [i \in DOMAIN a[n] |-> a[n][i] + b[n][i]]]
VSub(a, b) == [n \in DOMAIN a |-> [i \in DOMAIN a[n] |-> a[n][i] - b[n][i]]]

\* a number times the float num/den, kept as the quotient <<numerator, denominator>>
VScale(a, num, den) == [n \in DOMAIN a |-> [i \in DOMAIN a[n] |-> <<a[n][i] * num, den>>]]

RelativeNames(d) == [i \in DOMAIN d |-> d[i].meta.relative_name]

RECURSIVE Flat(_, _)
Flat(vec, names) ==
    IF names = <<>> THEN <<>> ELSE vec[Head(names)] \o Flat(vec, Tail(names))

RECURSIVE SumSeq(_)
SumSeq(q) == IF q = <<>> THEN 0 ELSE Head(q) + SumSeq(Tail(q))

\* states = [meta['relative_name'] for meta in _unknowns_dict if meta.get('state')]
StatesOf(c) ==
    RelativeNames(SelectSeq(c.unknowns_dict, LAMBDA e : e.meta.state))

InSeq(x, q) == \E i \in DOMAIN q : q[i] = x

-----------------------------------------------------------------------------
(* solve_nonlinear: the behaviour a component is given.  It reads params    *)
(* and unknowns and overwrites unknowns.                                    *)

SolveKinds == {"linear", "square", "product", "relax"}

solve_nonlinear(c, kind, p, u) ==
    LET P == Flat(p, RelativeNames(c.params_dict))
        S == SumSeq(Flat(u, StatesOf(c)))
        isState(n) == InSeq(n, StatesOf(c))
    IN  [n \in DOMAIN u |-> [j \in DOMAIN u[n] |->
            CASE kind = "linear" ->
                   IF isState(n) THEN u[n][j]
                   ELSE SumSeq([k \in DOMAIN P |-> (k + j) * P[k]])
              [] kind = "square" ->
                   IF isState(n) THEN u[n][j]
                   ELSE SumSeq([k \in DOMAIN P |-> P[k] * P[k]]) + j * S
              [] kind = "product" ->
                   IF isState(n) THEN u[n][j]
                   ELSE P[1] * P[Len(P)] + j * S
              [] OTHER ->
                   IF isState(n) THEN P[Len(P)] + j
                   ELSE P[1] - S]]

\* what one evaluation of solve_nonlinear does: return, raise before writing
\* unknowns, or raise after writing them
Outcomes == {"ok", "raise_before", "raise_after"}

-----------------------------------------------------------------------------
(* Residual evaluator.  st is [params, unknowns, resids]; the result adds   *)
(* raised.                                                                  *)

apply_nonlinear_norestore(c, kind, st, outcome) ==
    LET r1 == VNeg(st.unknowns)
        u1 == solve_nonlinear(c, kind, st.params, st.unknowns)
    IN  IF outcome = "raise_before"
        THEN [params |-> st.params, unknowns |-> st.unknowns, resids |-> r1, raised |-> TRUE]
        ELSE IF outcome = "raise_after"
        THEN [params |-> st.params, unknowns |-> u1, resids |-> r1, raised |-> TRUE]
        ELSE [params |-> st.params, unknowns |-> u1, resids |-> VAdd(r1, u1),
              raised |-> FALSE]

apply_nonlinear_nosnapshot(c, kind, st, outcome) ==
    LET r1 == st.resids
        u1 == solve_nonlinear(c, kind, st.params, st.unknowns)
        r2 == VAdd(r1, u1)
    IN  IF outcome = "raise_before"
        THEN [params |-> st.params, unknowns |-> st.unknowns, resids |-> r1, raised |-> TRUE]
        ELSE IF outcome = "raise_after"
        THEN [params |-> st.params, unknowns |-> u1, resids |-> r1, raised |-> TRUE]
        ELSE [params |-> st.params, unknowns |-> VSub(u1, r2), resids |-> r2,
              raised |-> FALSE]

apply_nonlinear(c, kind, st, outcome) ==
    LET r1 == VNeg(st.unknowns)                          \* resids.vec[:] = -unknowns.vec[:]
        u1 == solve_nonlinear(c, kind, st.params, st.unknowns)
        r2 == VAdd(r1, u1)                               \* resids.vec[:] += unknowns.vec[:]
    IN  IF outcome = "raise_before"
        THEN [params |-> st.params, unknowns |-> st.unknowns, resids |-> r1, raised |-> TRUE]
        ELSE IF outcome = "raise_after"
        THEN [params |-> st.params, unknowns |-> u1, resids |-> r1, raised |-> TRUE]
        ELSE [params |-> st.params, unknowns |-> VSub(u1, r2), resids |-> r2,
              raised |-> FALSE]

-----------------------------------------------------------------------------
(* Finite-difference Jacobian engine *)

Forms == {"forward", "backward", "central"}
StepTypes == {"absolute", "relative"}
StepSizes == {2}

\* an optional argument: None, or <<value>>
Resolve(arg, default) == IF arg = None THEN default ELSE arg[1]

fd_step_abs(v, fdstep, fdtype) ==
    IF fdtype = "relative"
    THEN LET step == (IF v < 0 THEN 0 - v ELSE v) * fdstep
         IN  IF step < fdstep THEN fdstep ELSE step
    ELSE fdstep

fd_step(v, fdstep, fdtype) ==
    IF fdtype = "relative"
    THEN LET step == v * fdstep
         IN  IF step < fdstep THEN fdstep ELSE step
    ELSE fdstep

\* inputs.flat[p_name][idx] += delta, inputs being unknowns for a state
Bump(st, isState, name, idx, delta) ==
    IF isState
    THEN [st EXCEPT !.unknowns[name][idx] = @ + delta]
    ELSE [st EXCEPT !.params[name][idx] = @ + delta]

Raised(e) ==
    [params |-> e.params, unknowns |-> e.unknowns, resids |-> e.resids,
     raised |-> TRUE, scaled |-> <<>>]

Returned(e, scaled) ==
    [params |-> e.params, unknowns |-> e.unknowns, resids |-> e.resids,
     raised |-> FALSE, scaled |-> scaled]

\* One index of one input, up to the scaled residual that becomes the column.
\* outs are the outcomes of the evaluations of solve_nonlinear, in order.
fd_index(c, kind, st, rc, form, isState, name, idx, step, outs) ==
    IF form = "forward" THEN
        LET e == apply_nonlinear(c, kind, Bump(st, isState, name, idx, step), outs[1])
        IN  IF e.raised THEN Raised(e)
            ELSE Returned(Bump(e, isState, name, idx, 0 - step),
                          VScale(VSub(e.resids, rc), 1, step))
    ELSE IF form = "backward" THEN
        LET e == apply_nonlinear(c, kind, Bump(st, isState, name, idx, 0 - step), outs[1])
        IN  IF e.raised THEN Raised(e)
            ELSE Returned(Bump(e, isState, name, idx, step),
                          VScale(VSub(e.resids, rc), 0 - 1, step))
    ELSE IF form = "central" THEN
        LET e1 == apply_nonlinear(c, kind, Bump(st, isState, name, idx, step), outs[1])
            resids2 == VSub(e1.resids, rc)
            e2 == apply_nonlinear(c, kind,
                                  Bump([e1 EXCEPT !.resids = rc], isState, name, idx,
                                       0 - 2 * step),
                                  outs[2])
        IN  IF e1.raised THEN Raised(e1)
            ELSE IF e2.raised THEN Raised(e2)
            ELSE Returned(e2, VScale(VSub(e2.resids, VAdd(rc, resids2)), 0 - 1, 2 * step))
    ELSE Returned(st, VScale(st.resids, 1, 1))

\* jac[u_name, p_name] = np.ones((u_size, p_size)) for every unknown
JacOnes(jac, u, pname, psize) ==
    LET new == {<<n, pname>> : n \in DOMAIN u}
    IN  [k \in (DOMAIN jac) \cup new |->
            IF k \in new
            THEN [i \in 1..Len(u[k[1]]) |-> [j \in 1..psize |-> <<1, 1>>]]
            ELSE jac[k]]

\* jac[u_name, p_name][:, idx] = resids.flat[u_name] for every unknown
JacColumn(jac, u, pname, idx, scaled) ==
    [k \in DOMAIN jac |->
        IF k[2] = pname /\ k[1] \in DOMAIN u
        THEN [i \in DOMAIN jac[k] |-> [jac[k][i] EXCEPT ![idx] = scaled[k[1]][i]]]
        ELSE jac[k]]

Vectors == [params |-> params, unknowns |-> unknowns, resids |-> resids]

VCall(op, args) == [op |-> op, args |-> args, pre |-> Vectors]

FdArgs ==
    {<<None, None, None>>}
        \cup {<<<<z>>, <<f>>, <<t>>>> : z \in StepSizes, f \in Forms, t \in StepTypes}

\* the outcomes of the evaluations one index makes: one, or two for central
OutcomeRuns(form) ==
    IF form = "central"
    THEN {<<o>> : o \in Outcomes \ {"ok"}} \cup {<<"ok", o>> : o \in Outcomes}
    ELSE {<<o>> : o \in Outcomes}

MaxRuns == 1

FdBegin ==
    /\ pc = "idle"
    /\ post_setup
    /\ ncalls < MaxRuns
    /\ \E args \in FdArgs :
          /\ fd' = [step_size |-> Resolve(args[1], fd_options.step_size),
                    form |-> Resolve(args[2], fd_options.form),
                    step_type |-> Resolve(args[3], fd_options.step_type),
                    resid_cache |-> resids,
                    jac |-> <<>>,
                    states |-> StatesOf(Self),
                    names |-> RelativeNames(params_dict) \o StatesOf(Self),
                    pi |-> 1, idx |-> 1, log |-> <<>>]
          /\ last' = VCall("fd_jacobian", args)
    /\ pc' = "fd"
    /\ err' = "none"
    /\ ncalls' = ncalls + 1
    /\ UNCHANGED <<regvars, pathname, cachevars, fd_options, solve_kind, vecvars,
                   dvecvars, declared>>

FdStep ==
    /\ pc = "fd"
    /\ fd.pi <= Len(fd.names)
    /\ \E outs \in OutcomeRuns(fd.form) :
        LET name == fd.names[fd.pi]
            isState == InSeq(name, fd.states)
            inputs == IF isState THEN unknowns ELSE params
            psize == Len(inputs[name])
            step == fd_step(inputs[name][fd.idx], fd.step_size, fd.step_type)
            jac0 == IF fd.idx = 1 THEN JacOnes(fd.jac, unknowns, name, psize) ELSE fd.jac
            r == fd_index(Self, solve_kind, Vectors, fd.resid_cache, fd.form, isState,
                          name, fd.idx, step, outs)
            entry == [name |-> name, idx |-> fd.idx, v |-> inputs[name][fd.idx],
                      step |-> step, before |-> Vectors]
        IN  /\ params' = r.params
            /\ unknowns' = r.unknowns
            /\ IF r.raised
               THEN /\ resids' = r.resids
                    /\ fd' = [fd EXCEPT !.jac = jac0, !.log = Append(@, entry)]
                    /\ pc' = "idle"
                    /\ err' = "SolveError"
               ELSE /\ resids' = fd.resid_cache
                    /\ fd' = [fd EXCEPT !.jac = JacColumn(jac0, unknowns, name, fd.idx, r.scaled),
                                        !.log = Append(@, entry),
                                        !.pi = IF fd.idx < psize THEN @ ELSE @ + 1,
                                        !.idx = IF fd.idx < psize THEN @ + 1 ELSE 1]
                    /\ pc' = "fd"
                    /\ err' = err
    /\ UNCHANGED <<regvars, pathname, cachevars, fd_options, solve_kind, dvecvars,
                   last, declared, ncalls>>

FdReturn ==
    /\ pc = "fd"
    /\ fd.pi > Len(fd.names)
    /\ pc' = "idle"
    /\ err' = "ok"
    /\ UNCHANGED <<regvars, pathname, cachevars, fd_options, solve_kind, vecvars,
                   dvecvars, fd, last, declared, ncalls>>

ApplyNonlinear ==
    /\ pc = "idle"
    /\ post_setup
    /\ ncalls < MaxRuns
    /\ \E outcome \in Outcomes :
        LET r == apply_nonlinear(Self, solve_kind, Vectors, outcome)
        IN  /\ params' = r.params
            /\ unknowns' = r.unknowns
            /\ resids' = r.resids
            /\ err' = IF r.raised THEN "SolveError" ELSE "ok"
    /\ last' = VCall("apply_nonlinear", <<>>)
    /\ ncalls' = ncalls + 1
    /\ UNCHANGED <<regvars, pathname, cachevars, fd_options, solve_kind, dvecvars,
                   pc, fd, declared>>

\* The component as it stands once the model is set up: declared, finalized,
\* and given its vectors by the owning system.
Decl(op, name, val, shape) == [op |-> op, name |-> name, val |-> val, shape |-> shape]

ApplyDecl(c, d) ==
    CASE d.op = "add_param" -> add_param(c, d.name, d.val, d.shape).c
      [] d.op = "add_output" -> add_output(c, d.name, d.val, d.shape).c
      [] OTHER -> add_state(c, d.name, d.val, d.shape).c

RECURSIVE Build(_, _)
Build(c, decls) ==
    IF decls = <<>> THEN setup_variables(c)
    ELSE Build(ApplyDecl(c, Head(decls)), Tail(decls))

Layouts ==
    { <<Decl("add_param", "x", NotSet, <<2>>),
        Decl("add_output", "y", NotSet, <<1>>),
        Decl("add_state", "s", Array(<<1>>), None)>>,
      <<Decl("add_param", "x", Array(<<7>>), None),
        Decl("add_param", "z", NotSet, <<1>>),
        Decl("add_output", "y", NotSet, <<2>>)>> }

ParamElems == {-2, 0, 3}
UnknownElems == {2}
ResidElems == {5}

\* the vectors with one entry per variable of d, sized as declared
VecsOver(d, elems) ==
    LET ns == {d[i].meta.relative_name : i \in DOMAIN d}
        size(n) == Len(d[CHOOSE i \in DOMAIN d : d[i].meta.relative_name = n].meta.val.v)
        sizes == {size(n) : n \in ns}
    IN  {f \in [ns -> UNION {[1..k -> elems] : k \in sizes}] :
            \A n \in ns : Len(f[n]) = size(n)}

Distinct(vec) == \A n, m \in DOMAIN vec : \A i \in DOMAIN vec[n], j \in DOMAIN vec[m] :
                    (n # m \/ i # j) => vec[n][i] # vec[m][j]

InitFD ==
    /\ pathname = "c"
    /\ \E layout \in Layouts :
          LET c == Build(NewComponent(pathname), layout)
          IN  /\ params_dict = c.params_dict
              /\ unknowns_dict = c.unknowns_dict
              /\ post_setup = c.post_setup
              /\ declared = [i \in DOMAIN layout |-> [op |-> layout[i].op, name |-> layout[i].name]]
              /\ params \in {p \in VecsOver(c.params_dict, ParamElems) : Distinct(p)}
              /\ unknowns \in VecsOver(c.unknowns_dict, UnknownElems)
              /\ resids \in VecsOver(c.unknowns_dict, ResidElems)
    /\ jacobian_cache = Dict(<<>>)
    /\ linearized = FALSE
    /\ fd_options = [step_size |-> 1, form |-> "central", step_type |-> "relative"]
    /\ solve_kind \in SolveKinds
    /\ dparams = <<>> /\ dunknowns = <<>> /\ dresids = <<>>
    /\ pc = "idle"
    /\ fd = <<>>
    /\ err = "none"
    /\ last = VCall("none", <<>>)
    /\ ncalls = 0

NextFD == ApplyNonlinear \/ FdBegin \/ FdStep \/ FdReturn

SpecFD == InitFD /\ [][NextFD]_vars

-----------------------------------------------------------------------------
(* Linear Jacobian applicator *)

\* J.T.dot(r) with the first row of J only
DotT_firstrow(J, r) == [k \in DOMAIN J[1] |-> J[1][k] * r[1]]

\* J.dot(v) and J.T.dot(r) for a block J given as its rows
Dot(J, v) == [i \in DOMAIN J |-> SumSeq([k \in DOMAIN v |-> J[i][k] * v[k]])]
DotT(J, r) == [k \in DOMAIN J[1] |-> SumSeq([i \in DOMAIN r |-> J[i][k] * r[i]])]

SeqAdd(a, b) == [i \in DOMAIN a |-> a[i] + b[i]]

\* the loop with the forward product assigned (=) where the code accumulates (+=)
RECURSIVE LinearLoop_assign(_, _, _, _)
LinearLoop_assign(items, i, dv, mode) ==
    IF i > Len(items) THEN dv
    ELSE
        LET unknown == items[i].unknown
            param == items[i].param
            J == items[i].J
            next(v) == LinearLoop_assign(items, i + 1, v, mode)
        IN  IF param \notin DOMAIN dv.dparams /\ param \notin DOMAIN dv.dunknowns
                THEN next(dv)
            ELSE IF unknown \notin DOMAIN dv.dresids
                THEN next(dv)
            ELSE
                LET inParams == param \in DOMAIN dv.dparams
                    arg == IF inParams THEN dv.dparams[param] ELSE dv.dunknowns[param]
                    result == dv.dresids[unknown]
                IN  IF mode = "fwd"
                    THEN next([dv EXCEPT !.dresids[unknown] = Dot(J, arg)])
                    ELSE IF inParams
                    THEN next([dv EXCEPT !.dparams[param] = SeqAdd(@, DotT(J, result))])
                    ELSE next([dv EXCEPT !.dunknowns[param] = SeqAdd(@, DotT(J, result))])

\* dv is [dparams, dunknowns, dresids]; the loop over the cached blocks from item i on
RECURSIVE LinearLoop(_, _, _, _)
LinearLoop(items, i, dv, mode) ==
    IF i > Len(items) THEN dv
    ELSE
        LET unknown == items[i].unknown
            param == items[i].param
            J == items[i].J
            next(v) == LinearLoop(items, i + 1, v, mode)
        IN  IF param \notin DOMAIN dv.dparams /\ param \notin DOMAIN dv.dunknowns
                THEN next(dv)
            ELSE IF unknown \notin DOMAIN dv.dresids
                THEN next(dv)
            ELSE
                LET inParams == param \in DOMAIN dv.dparams
                    arg == IF inParams THEN dv.dparams[param] ELSE dv.dunknowns[param]
                    result == dv.dresids[unknown]
                IN  IF mode = "fwd"
                    THEN next([dv EXCEPT !.dresids[unknown] = SeqAdd(@, Dot(J, arg))])
                    ELSE IF inParams
                    THEN next([dv EXCEPT !.dparams[param] = SeqAdd(@, DotT(J, result))])
                    ELSE next([dv EXCEPT !.dunknowns[param] = SeqAdd(@, DotT(J, result))])

DVectors == [dparams |-> dparams, dunknowns |-> dunknowns, dresids |-> dresids]

apply_linear_jac(cache, dv, mode) ==
    IF cache.isNone
    THEN [dv |-> dv, err |-> "ValueError"]
    ELSE [dv |-> LinearLoop(cache.items, 1, dv, mode), err |-> "ok"]

apply_linear(cache, dv, mode) == apply_linear_jac(cache, dv, mode)

\* Component.jacobian: None unless the component overrides it
jacobian == NoneCache

Modes == {"fwd", "rev"}
MaxLinCalls == 3

LCall(op, mode) ==
    [op |-> op, mode |-> mode,
     pre |-> [dv |-> DVectors, jacobian_cache |-> jacobian_cache, linearized |-> linearized]]

ApplyLinear ==
    /\ pc = "idle"
    /\ ncalls < MaxLinCalls
    /\ \E mode \in Modes :
        LET r == apply_linear(jacobian_cache, DVectors, mode)
        IN  /\ dparams' = r.dv.dparams
            /\ dunknowns' = r.dv.dunknowns
            /\ dresids' = r.dv.dresids
            /\ err' = r.err
            /\ last' = LCall("apply_linear", mode)
    /\ ncalls' = ncalls + 1
    /\ UNCHANGED <<regvars, pathname, cachevars, fd_options, solve_kind, vecvars, pc, fd,
                   declared>>

\* The Jacobians an analytic override or a finite-difference pass hands over
Block(unknown, param, J) == [unknown |-> unknown, param |-> param, J |-> J]

Jacobians ==
    { <<Block("y", "x", <<<<2, 3>>, <<0 - 1, 4>>>>), Block("y", "s", <<<<1>>, <<2>>>>),
        Block("s", "x", <<<<0, 4>>>>)>>,
      <<Block("s", "s", <<<<3>>>>), Block("y", "x", <<<<5, 0>>, <<1, 2>>>>),
        Block("s", "x", <<<<1, 1>>>>)>> }

\* The owning system linearizes the component and stores what it got in
\* _jacobian_cache: the result of jacobian(), or a Jacobian dict.
LinearizeDefault ==
    /\ pc = "idle"
    /\ ncalls < MaxLinCalls
    /\ jacobian_cache' = jacobian
    /\ err' = "ok"
    /\ last' = LCall("linearize", "")
    /\ ncalls' = ncalls + 1
    /\ UNCHANGED <<regvars, pathname, linearized, fd_options, solve_kind, vecvars, dvecvars,
                   pc, fd, declared>>

LinearizeJacobian ==
    /\ pc = "idle"
    /\ ncalls < MaxLinCalls
    /\ \E items \in Jacobians : jacobian_cache' = Dict(items)
    /\ linearized' = TRUE
    /\ err' = "ok"
    /\ last' = LCall("linearize", "")
    /\ ncalls' = ncalls + 1
    /\ UNCHANGED <<regvars, pathname, fd_options, solve_kind, vecvars, dvecvars, pc, fd,
                   declared>>

\* apply_nonlinear run by the owning system between linear solves
ApplyNonlinearLin ==
    /\ pc = "idle"
    /\ post_setup
    /\ ncalls < MaxLinCalls
    /\ \E outcome \in Outcomes :
        LET r == apply_nonlinear(Self, solve_kind, Vectors, outcome)
        IN  /\ params' = r.params
            /\ unknowns' = r.unknowns
            /\ resids' = r.resids
            /\ err' = IF r.raised THEN "SolveError" ELSE "ok"
    /\ last' = LCall("apply_nonlinear", "")
    /\ ncalls' = ncalls + 1
    /\ UNCHANGED <<regvars, pathname, cachevars, fd_options, solve_kind, dvecvars,
                   pc, fd, declared>>

DElems == {1, 3}

\* the d-vectors of a linear system: each holds some of the variables
SubVecs(d, elems) ==
    LET ns == {d[i].meta.relative_name : i \in DOMAIN d}
        size(n) == Len(d[CHOOSE i \in DOMAIN d : d[i].meta.relative_name = n].meta.val.v)
    IN  UNION { {[n \in sub |-> [i \in 1..size(n) |-> e + i]] : e \in elems} : sub \in SUBSET ns }

LinLayout ==
    <<Decl("add_param", "x", NotSet, <<2>>),
      Decl("add_output", "y", NotSet, <<2>>),
      Decl("add_state", "s", Array(<<1>>), None)>>

InitLin ==
    /\ pathname = "c"
    /\ LET c == Build(NewComponent(pathname), LinLayout)
       IN  /\ params_dict = c.params_dict
           /\ unknowns_dict = c.unknowns_dict
           /\ post_setup = c.post_setup
           /\ declared = [i \in DOMAIN LinLayout |->
                            [op |-> LinLayout[i].op, name |-> LinLayout[i].name]]
           /\ params = [x |-> <<3, 0>>]
           /\ unknowns = [y |-> <<2, 2>>, s |-> <<2>>]
           /\ resids = [y |-> <<5, 5>>, s |-> <<5>>]
           /\ dparams \in SubVecs(c.params_dict, DElems)
           /\ dunknowns \in SubVecs(c.unknowns_dict, DElems)
           /\ dresids \in SubVecs(c.unknowns_dict, DElems)
    /\ jacobian_cache = Dict(<<>>)
    /\ linearized = FALSE
    /\ fd_options = [step_size |-> 1, form |-> "central", step_type |-> "relative"]
    /\ solve_kind = "linear"
    /\ pc = "idle"
    /\ fd = <<>>
    /\ err = "none"
    /\ LET none == [dv |-> DVectors, jacobian_cache |-> jacobian_cache, linearized |-> FALSE]
       IN  last = [op |-> "none", mode |-> "", pre |-> none]
    /\ ncalls = 0

NextLin == ApplyLinear \/ LinearizeDefault \/ LinearizeJacobian \/ ApplyNonlinearLin

SpecLin == InitLin /\ [][NextLin]_vars

-----------------------------------------------------------------------------
(* Properties of the registry *)

Unset(call) == call.val = NotSet /\ call.shape = None

RegistryUntouched ==
    /\ params_dict = last.pre.params_dict
    /\ unknowns_dict = last.pre.unknowns_dict

\* C6 as stated: once _setup_variables has run, every add_param, add_output or
\* add_state call, whatever its arguments, raises RuntimeError (StateError) and
\* adds no entry.
C6_AfterSetupStateError ==
    (last.op \in AddOps /\ last.pre.post_setup)
        => (err = "RuntimeError" /\ RegistryUntouched)

\* C6 amended: once _setup_variables has run, every declaration fails and adds
\* no entry; the failure is RuntimeError (StateError) when a value or a shape
\* is supplied and ValueError (ConfigurationError) when neither is.
C6_AfterSetupFails ==
    (last.op \in AddOps /\ last.pre.post_setup)
        => /\ err = (IF Unset(last) THEN "ValueError" ELSE "RuntimeError")
           /\ RegistryUntouched

C6_Witness ==
    /\ last.op \in AddOps
    /\ last.pre.post_setup
    /\ ~Unset(last)
    /\ last.name \notin Keys(last.pre.params_dict) \cup Keys(last.pre.unknowns_dict)
    /\ err = "RuntimeError"

Duplicate(call) ==
    /\ call.op \in AddOps
    /\ ~call.pre.post_setup
    /\ call.name \in Keys(call.pre.params_dict) \cup Keys(call.pre.unknowns_dict)

\* C7 as stated: before finalization, declaring a local name that was already
\* declared, in any combination of kinds, always raises RuntimeError (StateError).
C7_DuplicateStateError ==
    Duplicate(last) => err = "RuntimeError"

\* C7 amended: before finalization, declaring an already declared local name
\* with a value or a shape supplied raises RuntimeError (StateError), in any
\* combination of kinds; with neither supplied it raises ValueError.
C7_DuplicateFails ==
    Duplicate(last) => err = (IF Unset(last) THEN "ValueError" ELSE "RuntimeError")

C7_Witness ==
    /\ Duplicate(last)
    /\ last.op = "add_state"
    /\ last.name \in Keys(last.pre.unknowns_dict)
    /\ ~last.pre.unknowns_dict[1].meta.state
    /\ err = "RuntimeError"

\* C8: a declaration with no value and no shape raises ValueError
\* (ConfigurationError) in every registry state and inserts nothing.
C8_UnsetConfigurationError ==
    (last.op \in AddOps /\ Unset(last))
        => (err = "ValueError" /\ RegistryUntouched)

C8_Witness ==
    /\ last.op \in AddOps
    /\ Unset(last)
    /\ last.pre.post_setup
    /\ last.pre.params_dict # <<>>
    /\ err = "ValueError"

DeclaredAs(ops) == SelectSeq(declared, LAMBDA e : e.op \in ops)

QualifiedName(P, n) == IF P = "" THEN n ELSE P \o ":" \o n

Catalogued(d, decls) ==
    /\ Len(d) = Len(decls)
    /\ \A i \in 1..Len(decls) :
          /\ d[i].key = QualifiedName(pathname, decls[i].name)
          /\ d[i].meta.relative_name = decls[i].name

\* C9: in every state reached after finalization with prefix P, every variable
\* declared as n is registered under P:n (n when P is empty) with relative_name
\* n, and the entries are the successful declarations, in declaration order.
C9_QualifiedKeys ==
    post_setup =>
        /\ Catalogued(params_dict, DeclaredAs({"add_param"}))
        /\ Catalogued(unknowns_dict, DeclaredAs({"add_output", "add_state"}))

-----------------------------------------------------------------------------
(* Properties of the residual evaluator and of the finite-difference engine *)

FdCompleted == last.op = "fd_jacobian" /\ pc = "idle" /\ err = "ok"

\* C1: after a complete fd_jacobian call, with any form and any step type,
\* every element of params, unknowns and resids equals its value from
\* immediately before the call.
C1_FdRestoresVectors ==
    FdCompleted =>
        /\ params = last.pre.params
        /\ unknowns = last.pre.unknowns
        /\ resids = last.pre.resids

\* U', the vector solve_nonlinear writes over the unknowns U of the last call
SolveResult == solve_nonlinear(Self, solve_kind, last.pre.params, last.pre.unknowns)

EvalReturned == last.op = "apply_nonlinear" /\ err = "ok"

\* C2 as stated: after apply_nonlinear, resids equals U - U' (old unknowns
\* minus new unknowns), element by element.
C2_ResidsOldMinusNew ==
    EvalReturned => resids = VSub(last.pre.unknowns, SolveResult)

\* C2 amended: after apply_nonlinear, resids equals U' - U (the unknowns that
\* solve_nonlinear computed minus the old unknowns), element by element.
C2_ResidsNewMinusOld ==
    EvalReturned => resids = VSub(SolveResult, last.pre.unknowns)

C2_Witness ==
    /\ EvalReturned
    /\ solve_kind = "square"
    /\ \E n \in DOMAIN resids : \E i \in DOMAIN resids[n] :
          /\ SolveResult[n][i] # last.pre.unknowns[n][i]
          /\ resids[n][i] = SolveResult[n][i] - last.pre.unknowns[n][i]

\* C3: after the default apply_nonlinear returns, the unknowns vector equals
\* its pre-call value U, and the params vector is as it was.
C3_UnknownsRestored ==
    EvalReturned =>
        /\ unknowns = last.pre.unknowns
        /\ params = last.pre.params

C3_Witness ==
    /\ EvalReturned
    /\ solve_kind = "relax"
    /\ \E n \in DOMAIN unknowns : \E i \in DOMAIN unknowns[n] :
          SolveResult[n][i] # last.pre.unknowns[n][i]
    /\ unknowns = last.pre.unknowns

\* C4: if the residual evaluation raises while an index is perturbed inside
\* fd_jacobian, then when the error reaches the caller params and unknowns
\* hold their pre-call values.
C4_RestoredOnRaise ==
    (last.op = "fd_jacobian" /\ pc = "idle" /\ err = "SolveError") =>
        /\ params = last.pre.params
        /\ unknowns = last.pre.unknowns

Abs(a) == IF a < 0 THEN 0 - a ELSE a
Max(a, b) == IF a < b THEN b ELSE a

FdLog == IF last.op = "fd_jacobian" THEN fd.log ELSE <<>>

\* C10 as stated: under 'relative' the step used for an index whose current
\* value is v is max(|v| * stepSize, stepSize); under 'absolute' it is stepSize.
C10_StepAbsRelative ==
    \A i \in DOMAIN FdLog :
        FdLog[i].step = IF fd.step_type = "relative"
                        THEN Max(Abs(FdLog[i].v) * fd.step_size, fd.step_size)
                        ELSE fd.step_size

\* C10 amended: under 'relative' the step is max(v * stepSize, stepSize), the
\* signed value being used: it is stepSize for every v <= 0; under 'absolute'
\* it is stepSize.
C10_StepSignedRelative ==
    \A i \in DOMAIN FdLog :
        FdLog[i].step = IF fd.step_type = "relative"
                        THEN Max(FdLog[i].v * fd.step_size, fd.step_size)
                        ELSE fd.step_size

C10_Witness ==
    /\ FdCompleted
    /\ fd.step_type = "relative"
    /\ \E i \in DOMAIN fd.log : fd.log[i].v < 0 - 1 /\ fd.log[i].step = fd.step_size
    /\ \E i \in DOMAIN fd.log : fd.log[i].v = 0 /\ fd.log[i].step = fd.step_size
    /\ \E i \in DOMAIN fd.log : fd.log[i].v > 1 /\ fd.log[i].step = fd.log[i].v * fd.step_size

\* r(z): the residual apply_nonlinear leaves when evaluated on the vectors z
ResidAt(z) == apply_nonlinear(Self, solve_kind, z, "ok").resids

\* the vectors of before the call with only the index of log entry e moved
MovedOnly(e, delta) ==
    Bump(last.pre, InSeq(e.name, fd.states), e.name, e.idx, delta)

\* the recorded quotient q = <<num, den>> equals a / b
SameQuotient(q, a, b) == q[1] * b = a * q[2]

\* the column of log entry e is the difference quotient of form f taken
\* around the vectors of before the call, r(x) being the baseline residual
\* the call found in resids
ColumnAround(e, f) ==
    LET s == e.step
        plus == ResidAt(MovedOnly(e, s))
        minus == ResidAt(MovedOnly(e, 0 - s))
        base == last.pre.resids
    IN  \A u \in DOMAIN unknowns : \A r \in DOMAIN unknowns[u] :
            LET q == fd.jac[<<u, e.name>>][r][e.idx]
            IN  CASE f = "forward" -> SameQuotient(q, plus[u][r] - base[u][r], s)
                  [] f = "backward" -> SameQuotient(q, minus[u][r] - base[u][r], 0 - s)
                  [] OTHER -> SameQuotient(q, plus[u][r] - minus[u][r], 2 * s)

\* C11: for every form and every flattened index k of every perturbed input,
\* the column recorded by a complete fd_jacobian call is the difference
\* quotient of residuals evaluated with only index k moved away from the
\* input values x of before the call: (r(x + s e_k) - r(x)) / s for forward,
\* (r(x - s e_k) - r(x)) / (-s) for backward, (r(x + s e_k) - r(x - s e_k)) / (2 s)
\* for central; no earlier index's perturbation is present at index k.
C11_ColumnsAroundPreCallInputs ==
    FdCompleted => \A i \in DOMAIN fd.log : ColumnAround(fd.log[i], fd.form)

-----------------------------------------------------------------------------
(* Properties of the linear applicator *)

\* C5: apply_linear on a component that has no cached Jacobian (none was ever
\* computed or supplied, a freshly constructed component included) fails with
\* ValueError (ConfigurationError) in both modes and modifies none of dparams,
\* dunknowns, dresids.
C5_NoJacobianFails ==
    (last.op = "apply_linear"
        /\ (last.pre.jacobian_cache.isNone \/ ~last.pre.linearized))
        => (err = "ValueError" /\ DVectors = last.pre.dv)

LinReturned(mode) == last.op = "apply_linear" /\ last.mode = mode /\ err = "ok"

\* the cached blocks and the d-vectors the last apply_linear call started from
PreItems == last.pre.jacobian_cache.items
PreDv == last.pre.dv

\* the vector a block's input i is read from or written to: dparams when it
\* holds i, otherwise dunknowns
HasOperand(dv, i) == i \in DOMAIN dv.dparams \/ i \in DOMAIN dv.dunknowns
Operand(dv, i) == IF i \in DOMAIN dv.dparams THEN dv.dparams[i] ELSE dv.dunknowns[i]

\* a block is skipped when its input is in neither vector or its output is
\* not in dresids
Skipped(dv, b) == ~HasOperand(dv, b.param) \/ b.unknown \notin DOMAIN dv.dresids

\* row r of the sum, over the blocks (o, i) that are not skipped, of J . operand[i]
ForwardSum(items, dv, o, r) ==
    SumSeq([b \in DOMAIN items |->
        IF items[b].unknown = o /\ ~Skipped(dv, items[b])
        THEN LET v == Operand(dv, items[b].param)
             IN  SumSeq([k \in DOMAIN v |-> items[b].J[r][k] * v[k]])
        ELSE 0])

\* every order in which the blocks of items can be visited
Orders(items) ==
    {[n \in DOMAIN items |-> items[f[n]]] :
        f \in {g \in [DOMAIN items -> DOMAIN items] :
                  \A a, b \in DOMAIN items : g[a] = g[b] => a = b}}

\* C12: forward-mode apply_linear with a cached Jacobian leaves, for every
\* output o in dresids, dresids[o] equal to its prior value plus the sum,
\* over the cached blocks (o, i) whose input i is in dparams (operand
\* dparams) or otherwise in dunknowns, of J . flatten(operand[i]); skipped
\* blocks contribute nothing, and the result does not depend on the order in
\* which the blocks are visited.
C12_ForwardAccumulates ==
    LinReturned("fwd") =>
        /\ DOMAIN dresids = DOMAIN PreDv.dresids
        /\ \A o \in DOMAIN dresids :
              /\ DOMAIN dresids[o] = DOMAIN PreDv.dresids[o]
              /\ \A r \in DOMAIN dresids[o] :
                    dresids[o][r] = PreDv.dresids[o][r] + ForwardSum(PreItems, PreDv, o, r)
        /\ \A q \in Orders(PreItems) : apply_linear(Dict(q), PreDv, "fwd").dv = DVectors

\* one output fed by a block read from dparams and by a block read from
\* dunknowns, while another block is skipped
C12_Witness ==
    /\ LinReturned("fwd")
    /\ \E a, b, c \in DOMAIN PreItems :
          /\ PreItems[a].unknown = PreItems[b].unknown
          /\ PreItems[a].unknown \in DOMAIN PreDv.dresids
          /\ Len(PreDv.dresids[PreItems[a].unknown]) > 1
          /\ PreItems[a].param \in DOMAIN PreDv.dparams
          /\ PreItems[b].param \notin DOMAIN PreDv.dparams
          /\ PreItems[b].param \in DOMAIN PreDv.dunknowns
          /\ Skipped(PreDv, PreItems[c])
    /\ dresids # PreDv.dresids

\* element k of the sum, over the blocks (o, i) that are not skipped, of
\* J^T . dresids[o]
ReverseSum(items, dv, i, k) ==
    SumSeq([b \in DOMAIN items |->
        IF items[b].param = i /\ ~Skipped(dv, items[b])
        THEN LET w == dv.dresids[items[b].unknown]
             IN  SumSeq([r \in DOMAIN w |-> items[b].J[r][k] * w[r]])
        ELSE 0])

\* C13: reverse-mode apply_linear with a cached Jacobian leaves, for every
\* input i found in dparams (or otherwise in dunknowns), operand[i] equal to
\* its prior value plus the sum, over the cached blocks (o, i) with o in
\* dresids, of J^T . flatten(dresids[o]); dresids is not modified and skipped
\* blocks contribute nothing.
C13_ReverseAccumulates ==
    LinReturned("rev") =>
        /\ dresids = PreDv.dresids
        /\ DOMAIN dparams = DOMAIN PreDv.dparams
        /\ DOMAIN dunknowns = DOMAIN PreDv.dunknowns
        /\ \A i \in (DOMAIN dparams) \cup (DOMAIN dunknowns) :
              /\ DOMAIN Operand(DVectors, i) = DOMAIN Operand(PreDv, i)
              /\ \A k \in DOMAIN Operand(DVectors, i) :
                    Operand(DVectors, i)[k]
                        = Operand(PreDv, i)[k] + ReverseSum(PreItems, PreDv, i, k)

\* one input fed from two outputs, one of them with two rows, while another
\* block is skipped
C13_Witness ==
    /\ LinReturned("rev")
    /\ \E a, b, c \in DOMAIN PreItems :
          /\ a # b
          /\ PreItems[a].param = PreItems[b].param
          /\ ~Skipped(PreDv, PreItems[a])
          /\ ~Skipped(PreDv, PreItems[b])
          /\ Len(PreDv.dresids[PreItems[a].unknown]) > 1
          /\ Skipped(PreDv, PreItems[c])
    /\ dparams # PreDv.dparams

\* a cache apply_linear takes no Jacobian block from
NoJacobian(cache) == cache.isNone \/ cache.items = <<>>

\* the half of C14 about apply_linear: the call leaves the cache as it was
ApplyLinearKeepsCache ==
    last.op = "apply_linear" =>
        /\ jacobian_cache = last.pre.jacobian_cache
        /\ linearized = last.pre.linearized

\* C14: a cached Jacobian may be applied by apply_linear any number of times,
\* forward and reverse calls interleaved, without being changed, and the next
\* apply_nonlinear invalidates it: after that evaluation the cache holds no
\* block of the earlier Jacobian for apply_linear to use until a new one is
\* cached.
C14_KeptThenInvalidated ==
    /\ ApplyLinearKeepsCache
    /\ last.op = "apply_nonlinear" => NoJacobian(jacobian_cache)

-----------------------------------------------------------------------------
(* Registry invariants *)

\* the keys of a registry are pairwise distinct: one entry per key
OneEntryPerKey(d) == \A i, j \in DOMAIN d : d[i].key = d[j].key => i = j

\* before finalization the entries of d are the declarations decls, by name
\* and in order; finalization only rekeys them
HoldsDeclarations(d, decls) ==
    /\ Len(d) = Len(decls)
    /\ OneEntryPerKey(d)
    /\ ~post_setup => \A i \in DOMAIN d : d[i].key = decls[i].name

\* C15: in every state reachable by add_param, add_output, add_state and
\* finalization calls, failed calls included, no name is registered both as a
\* parameter and as an output/state, each registry holds exactly one entry
\* per successful declaration of its kind, and a failed declaration leaves
\* both registries unchanged.
C15_RegistriesConsistent ==
    /\ Keys(params_dict) \cap Keys(unknowns_dict) = {}
    /\ HoldsDeclarations(params_dict, DeclaredAs({"add_param"}))
    /\ HoldsDeclarations(unknowns_dict, DeclaredAs({"add_output", "add_state"}))
    /\ (last.op \in AddOps /\ err # "ok") => RegistryUntouched

\* an output or state declaration of a name already held as a parameter,
\* refused while both registries hold an entry
C15_Witness ==
    /\ last.op \in {"add_output", "add_state"}
    /\ ~Unset(last)
    /\ ~last.pre.post_setup
    /\ last.name \in Keys(last.pre.params_dict)
    /\ last.pre.unknowns_dict # <<>>
    /\ err # "ok"
    /\ RegistryUntouched

====
